---- MODULE Spec2Model ----
(***************************************************************************)
(* A model of the qpick query engine (src/src/lib.rs): the process-wide    *)
(* configuration statics, engine construction, the posting reader, the     *)
(* shard scorer, the query engine and its string-facing wrappers.          *)
(*                                                                         *)
(* Numbers.  f32 values are modelled as non-negative integers on a fixed   *)
(* grid, plus NaN and infinity; every arithmetic result is rounded to the  *)
(* 24 significant bits of an f32 (round to nearest, ties to even), so sums *)
(* are commutative but not associative, as in the program.  u32/u64/usize  *)
(* values are integers.                                                    *)
(***************************************************************************)
EXTENDS Integers, Sequences, FiniteSets, TLC

\* ------------------------------------------------------------------ bounds
\* Query words are 0 .. MaxWord.
MaxWord == 2

\* ------------------------------------------------------- generic helpers
Range(s) == {s[i] : i \in DOMAIN s}

Take(s, n) == IF n >= Len(s) THEN s ELSE SubSeq(s, 1, n)

RECURSIVE SeqSum(_)
SeqSum(s) == IF s = <<>> THEN 0 ELSE Head(s) + SeqSum(Tail(s))

RECURSIVE Concat(_)
Concat(ss) == IF ss = <<>> THEN <<>> ELSE Head(ss) \o Concat(Tail(ss))

\* All orders (sequences without repetition) of the finite set S.
RECURSIVE Orders(_)
Orders(S) ==
    IF S = {} THEN {<<>>}
    ELSE UNION {{<<x>> \o o : o \in Orders(S \ {x})} : x \in S}

\* The elements of the set of integers S in ascending order.
RECURSIVE Ascending(_)
Ascending(S) ==
    IF S = {} THEN <<>>
    ELSE LET m == CHOOSE x \in S : \A y \in S : x <= y
         IN <<m>> \o Ascending(S \ {m})

Min2(a, b) == IF a < b THEN a ELSE b

\* ------------------------------------------------------------ f32 values
\* The number of significant bits of an f32.
MantissaBits == 24

RECURSIVE Granule(_)
Granule(x) == IF x < 2^MantissaBits THEN 1 ELSE 2 * Granule(x \div 2)

\* x rounded to MantissaBits significant bits, ties to even.
RoundF32(x) ==
    LET g == Granule(x)
        q == x \div g
        r == x % g
    IN  IF g = 1 THEN x
        ELSE IF 2 * r > g \/ (2 * r = g /\ q % 2 = 1) THEN (q + 1) * g
        ELSE q * g

FAdd(a, b) == RoundF32(a + b)

FMul(a, b) == RoundF32(a * b)

\* Fractional bits kept of a quotient before it is rounded.
QuotBits == 12

\* The f32 values that are not numbers of the grid: 0.0 / 0.0 and x / 0.0.
NaN == -1

Infinity == 2147483647

IsNaN(x) == x = NaN

\* a / b for a, b >= 0.
FDiv(a, b) ==
    IF b = 0 THEN (IF a = 0 THEN NaN ELSE Infinity)
    ELSE RoundF32(((a \div b) * 2^QuotBits) + (((a % b) * 2^QuotBits) \div b))

\* Fractional resolution of a logarithm: idf values are multiples of 1/LogUnit.
LogUnit == 16

RECURSIVE FloorLog2(_, _)
FloorLog2(n, d) == IF 2 * d > n THEN 0 ELSE 1 + FloorLog2(n, 2 * d)

\* (n / len).log(2.0) for n >= len >= 1, in units of 1/LogUnit (0 when
\* n = len): the exponent
\* exactly, the fraction by linear interpolation of the mantissa.
Log2Ratio(n, len) ==
    LET e == FloorLog2(n, len)
        d == len * 2^e
    IN  e * LogUnit + ((n - d) * LogUnit) \div d

\* ------------------------------------------------------------ pair codec
RECURSIVE ISqrtFrom(_, _)
ISqrtFrom(v, s) == IF (s + 1) * (s + 1) > v THEN s ELSE ISqrtFrom(v, s + 1)

elegant_pair(x, y) == IF x < y THEN y * y + x ELSE x * x + x + y

\* The inverse: s = floor(sqrt(v)), and v - s*s is compared with s.
elegant_pair_inv(v) ==
    LET s == ISqrtFrom(v, 0)
        d == v - s * s
    IN  IF d < s THEN <<d, s>> ELSE <<s, d - s>>

\* qid = pqid * NR_SHARDS + remainder.
pqid2qid(pqid, reminder, nr_shards) == pqid * nr_shards + reminder

\* The shard of an n-gram: a fixed function of the n-gram with values in
\* 0 .. nr_shards - 1.  Words are numbers; the hash spreads them evenly.
jump_consistent_hash_str(ngram, nr_shards) == ngram % nr_shards

\* --------------------------------------------------------- posting files
\* A posting record on disk: pqid as a little-endian u32, then the
\* remainder, tr and f bytes.
EncodeRecord(rec) ==
    << rec[1] % 256, (rec[1] \div 256) % 256, (rec[1] \div 65536) % 256,
       rec[1] \div 16777216, rec[2], rec[3], rec[4] >>

\* LittleEndian::read_u32 of four bytes.
read_u32(b) == b[1] + 256 * b[2] + 65536 * b[3] + 16777216 * b[4]

\* What handle.read stores in buf, and the count it returns, for a file of
\* bytes `file` positioned at byte offset pos with a buffer of cap bytes.
\* outcome "err" is a failed read: nothing is stored.
ReadInto(file, pos, cap, outcome) ==
    LET avail == IF pos >= Len(file) THEN 0 ELSE Min2(cap, Len(file) - pos)
        n == IF outcome = "err" THEN 0 ELSE avail
    IN  [n |-> n,
         buf |-> [i \in 1 .. cap |-> IF i <= n THEN file[pos + i] ELSE 0]]

\* The decoding loop of read_bucket over buf: vlen records, each read at
\* j = i * id_size as buf[j .. j+4], buf[j+4], buf[j+5], buf[j+6].  An index
\* past the end of buf panics.
DecodeBucket(buf, n, vlen, id_size) ==
    IF n = 0 THEN [panic |-> FALSE, recs |-> <<>>]
    ELSE IF \E i \in 0 .. vlen - 1 : i * id_size + 7 > Len(buf)
         THEN [panic |-> TRUE, recs |-> <<>>]
    ELSE [panic |-> FALSE,
          recs |-> [i \in 1 .. vlen |->
                      LET j == (i - 1) * id_size
                      IN  << read_u32(SubSeq(buf, j + 1, j + 4)),
                             buf[j + 5], buf[j + 6], buf[j + 7] >>]]

\* read_bucket(file, addr, len) when nothing moves the file offset between
\* its seek and its read: g holds the process-wide ID_SIZE and BUCKET_SIZE.
read_bucket(file, addr, len, g, outcome) ==
    LET r == ReadInto(file, addr, g.bucket_size * g.id_size, outcome)
    IN  DecodeBucket(r.buf, r.n, len, g.id_size)

\* ------------------------------------------------------- indexes on disk
\* Three index directories.  Index "A" has three shards, index "B" two and
\* index "C" one; their config.json files differ in nr_shards, bucket_size
\* and shard_size.
Paths == {"A", "B", "C"}

Words == 0 .. MaxWord

ConfigOf(path) ==
    CASE path = "A" ->
           [nr_shards |-> 3, id_size |-> 7, bucket_size |-> 3, shard_size |-> 1000]
      [] path = "B" ->
           [nr_shards |-> 2, id_size |-> 7, bucket_size |-> 2, shard_size |-> 64]
      [] OTHER ->
           [nr_shards |-> 1, id_size |-> 7, bucket_size |-> 2, shard_size |-> 2]

\* The postings of an n-gram as <<qid, tr, f>>; <<>> when the index does not
\* know the n-gram.  In "A" queries 5 and 7 share three n-grams; in "B"
\* queries 4 and 6 have equal postings for n-gram 0; the one shard of "C"
\* holds two queries (its shard_size) and n-gram 0 occurs in both.
PostingsOf(path, w) ==
    CASE path = "A" ->
           (CASE w = 0 -> << <<5, 86, 132>>, <<7, 93, 154>> >>
              [] w = 1 -> << <<5, 93, 154>>, <<7, 93, 197>> >>
              [] w = 2 -> << <<5, 93, 197>>, <<7, 86, 132>> >>
              [] OTHER -> <<>>)
      [] path = "B" ->
           (CASE w = 0 -> << <<4, 80, 10>>, <<6, 80, 10>> >>
              [] w = 1 -> << <<3, 60, 0>>, <<9, 100, 200>> >>
              [] OTHER -> <<>>)
      [] OTHER ->
           (CASE w = 0 -> << <<0, 70, 5>>, <<1, 90, 20>> >>
              [] OTHER -> <<>>)

\* The term weight the n-gram extractor gives a word, as a percentage.
TermWeightOf(path, w) == IF path = "B" /\ w = 1 THEN 50 ELSE 100

\* The n-grams stored in shard i of an index, in ascending order: those the
\* shard hash sends there.
ShardWords(path, i) ==
    Ascending({w \in Words :
                 /\ PostingsOf(path, w) # <<>>
                 /\ jump_consistent_hash_str(w, ConfigOf(path).nr_shards) = i})

\* Record index at which the bucket of the k-th n-gram of a shard starts.
BucketAddr(path, ws, k) ==
    SeqSum([j \in 1 .. k - 1 |-> Len(PostingsOf(path, ws[j]))])

\* shard.{i}: the buckets one after another, each record ID_SIZE bytes.
ShardFile(path, i) ==
    LET ws == ShardWords(path, i)
        n == ConfigOf(path).nr_shards
    IN  Concat([k \in 1 .. Len(ws) |->
            Concat([r \in 1 .. Len(PostingsOf(path, ws[k])) |->
                LET p == PostingsOf(path, ws[k])[r]
                IN  EncodeRecord(<<p[1] \div n, p[1] % n, p[2], p[3]>>)])])

\* map.{i}: n-gram -> pair(addr, len), as a set of <<key, value>> entries.
ShardMap(path, i) ==
    LET ws == ShardWords(path, i)
    IN  {<<ws[k], elegant_pair(BucketAddr(path, ws, k),
                               Len(PostingsOf(path, ws[k])))>> :
           k \in 1 .. Len(ws)}

\* get_addr_and_len: Some((addr, len)) as <<addr, len>>, None as <<>>.
get_addr_and_len(ngram, map) ==
    IF \E e \in map : e[1] = ngram
    THEN elegant_pair_inv((CHOOSE e \in map : e[1] = ngram)[2])
    ELSE <<>>

\* --------------------------------------------------------------- Sid order
\* f32 == and f32::partial_cmp: NaN equals nothing and compares with nothing.
F32Eq(x, y) == ~IsNaN(x) /\ ~IsNaN(y) /\ x = y

\* Sid::eq compares the scores only.
SidEq(a, b) == F32Eq(a.sc, b.sc)

Compare(x, y) == IF x < y THEN "Less" ELSE IF x = y THEN "Equal" ELSE "Greater"

Reverse(o) == IF o = "Less" THEN "Greater" ELSE IF o = "Greater" THEN "Less" ELSE o

F32PartialCmp(x, y) == IF IsNaN(x) \/ IsNaN(y) THEN "None" ELSE Compare(x, y)

UnwrapOrLess(o) == IF o = "None" THEN "Less" ELSE o

\* Sid::partial_cmp: by id when the scores are equal, else by score.
SidPartialCmp(a, b) ==
    IF SidEq(a, b) THEN Compare(a.id, b.id) ELSE F32PartialCmp(a.sc, b.sc)

\* The comparator handed to sort_by:
\* a.partial_cmp(&b).unwrap_or(Ordering::Less).reverse().
SortCmp(a, b) == Reverse(UnwrapOrLess(SidPartialCmp(a, b)))

\* v.sort_by(SortCmp), the stable insertion sort the library runs on short
\* slices: each element moves left past the elements it is Less than.
RECURSIVE InsertSid(_, _)
InsertSid(v, x) ==
    IF v = <<>> THEN <<x>>
    ELSE IF SortCmp(x, v[Len(v)]) = "Less"
         THEN InsertSid(SubSeq(v, 1, Len(v) - 1), x) \o <<v[Len(v)]>>
         ELSE v \o <<x>>

RECURSIVE SortFrom(_, _)
SortFrom(sorted, rest) ==
    IF rest = <<>> THEN sorted
    ELSE SortFrom(InsertSid(sorted, Head(rest)), Tail(rest))

SortBy(v) == SortFrom(<<>>, v)

\* The order in which a HashMap with the given keys yields them: order when
\* it lists exactly these keys, else ascending.
IterOrder(keys, order) ==
    IF {order[i] : i \in 1 .. Len(order)} = keys /\ Len(order) = Cardinality(keys)
    THEN order ELSE Ascending(keys)

\* The Sids of a HashMap<u64, f32>, as it yields them.  The scores a shard
\* accumulates are numbers and the ids are distinct, so SortCmp orders them
\* totally and the sorted vector is the same for every iteration order.
SidsOf(m) ==
    LET o == Ascending(DOMAIN m)
    IN  [i \in 1 .. Len(o) |-> [id |-> o[i], sc |-> m[o[i]]]]

\* *m.entry(k).or_insert(0.0) += x
AddEntry(m, k, x) ==
    IF k \in DOMAIN m THEN [m EXCEPT ![k] = FAdd(@, x)]
    ELSE m @@ (k :> FAdd(0, x))

EmptyMap == [k \in {} |-> 0]

\* ------------------------------------------------------------ shard scorer
\* The inner loop of get_query_ids over the records of one bucket.
RECURSIVE ScoreRecords(_, _, _, _, _)
ScoreRecords(ids, recs, ntr, idf, nr_shards) ==
    IF recs = <<>> THEN ids
    ELSE LET rec == Head(recs)
             qid == pqid2qid(rec[1], rec[2], nr_shards)
             weight == FMul(Min2(rec[3], ntr), 1000 + rec[4])
         IN  ScoreRecords(AddEntry(ids, qid, FMul(weight, idf)),
                          Tail(recs), ntr, idf, nr_shards)

\* One iteration of the loop of get_query_ids: al is what get_addr_and_len
\* returned, rb what read_bucket returned, idf the n-gram's IDF.
ScoreNgram(acc, ntr, al, rb, idf, nr_shards) ==
    IF al # <<>> /\ rb.panic THEN [acc EXCEPT !.panic = TRUE]
    ELSE [ids |-> IF al = <<>> THEN acc.ids
                  ELSE ScoreRecords(acc.ids, rb.recs, ntr, idf, nr_shards),
          norm |-> FAdd(acc.norm, FMul(ntr, idf)),
          panic |-> FALSE]

\* The bucket of an n-gram found at al = <<addr, len>>.
BucketOf(al, file, g, outcome) ==
    IF al = <<>> THEN [panic |-> FALSE, recs |-> <<>>]
    ELSE read_bucket(file, al[1] * g.id_size, al[2], g, outcome)

\* The IDF of an n-gram: log2(n / len), or log2(n) when it is unknown.
IdfOf(al, g) == Log2Ratio(g.shard_size, IF al = <<>> THEN 1 ELSE al[2])

ScoreLookup(acc, ntr, al, rb, g) ==
    ScoreNgram(acc, ntr, al, rb, IdfOf(al, g), g.nr_shards)

\* The loop of get_query_ids over the n-grams of one shard, in the order
\* the HashMap yields them (order).  acc = [ids, norm, panic]; reads[w] is
\* what read_bucket returns for n-gram w.
RECURSIVE ScoreNgrams(_, _, _, _, _, _)
ScoreNgrams(acc, order, ngrams, map, reads, g) ==
    IF order = <<>> \/ acc.panic THEN acc
    ELSE ScoreNgrams(ScoreLookup(acc, ngrams[Head(order)],
                                 get_addr_and_len(Head(order), map),
                                 reads[Head(order)], g),
                     Tail(order), ngrams, map, reads, g)

\* The tail of get_query_ids: collect, sort, truncate.
ShardIdsOf(acc, count) ==
    [ids |-> Take(SortBy(SidsOf(acc.ids)), count),
     norm |-> acc.norm,
     panic |-> acc.panic]

\* get_query_ids(ngrams, map, ifd, count): ShardIds {ids, norm}, or a panic.
get_query_ids(ngrams, order, map, reads, count, g) ==
    ShardIdsOf(ScoreNgrams([ids |-> EmptyMap, norm |-> 0, panic |-> FALSE],
                           order, ngrams, map, reads, g),
               count)

\* ------------------------------------------------------------ query engine
\* Option values: None is <<>>, Some(v) is <<v>>.
None == <<>>
Some(v) == <<v>>
Unwrap(o) == o[1]

\* A Shard {map, shard}: the two files opened for shard `num` of an index.
OpenShard(path, num) == [path |-> path, num |-> num]

\* The value Qpick::new builds: shard_range defaults to 0..nr_shards, and the
\* shards vector holds one Shard per number of the range, in order.
NewQpick(path, shard_range_opt) ==
    LET c == ConfigOf(path)
        range == IF shard_range_opt = None THEN <<0, c.nr_shards>>
                 ELSE Unwrap(shard_range_opt)
    IN  [path |-> path,
         config |-> c,
         shards |-> [k \in 1 .. range[2] - range[1] |->
                       OpenShard(path, range[1] + k - 1)],
         shard_range |-> [start |-> range[1], end |-> range[2]]]

\* ngrams::parse: the words of the query, each with its term weight.
parse(query, path) == [w \in Range(query) |-> TermWeightOf(path, w)]

\* The per-shard count of get_ids: 100 for a count of 1 ..= 50.
ShardCount(count) == IF 1 <= count /\ count <= 50 THEN 100 ELSE count

\* The first loop of get_ids: the n-grams of each shard id in the range.
ShardsNgrams(e, ngrams) ==
    LET sid(w) == jump_consistent_hash_str(w, e.config.nr_shards)
        kept == {w \in DOMAIN ngrams :
                   ~(sid(w) >= e.shard_range.end \/ sid(w) < e.shard_range.start)}
    IN  [i \in {sid(w) : w \in kept} |-> {w \in kept : sid(w) = i}]

\* The elements of order that are in S, in the order of order.
Restrict(order, S) == SelectSeq(order, LAMBDA x : x \in S)

\* What one iteration of the second loop of get_ids adds for the Shard sh
\* and its n-grams ws: the ShardIds r and the lookups made.
AfterShard(acc, r, ws, num) ==
    [res |-> Append(acc.res, r),
     lookups |-> acc.lookups \cup {<<w, num>> : w \in ws},
     panic |-> r.panic]

ScoreShard(acc, sh, ws, ngrams, ngOrder, count, g, reads) ==
    AfterShard(acc,
               get_query_ids([w \in ws |-> ngrams[w]], Restrict(ngOrder, ws),
                             ShardMap(sh.path, sh.num), reads, count, g),
               ws, sh.num)

\* The second loop of get_ids: get_query_ids on self.shards[shard_id] for
\* each key of shards_ngrams, in the HashMap's order.  Indexing past the end
\* of self.shards panics.  acc = [res, lookups, panic]; lookups records each
\* <<n-gram, shard number consulted>> (-1: no such slot); reads[i][w] is what
\* read_bucket returns for n-gram w on self.shards[i].
RECURSIVE ScoreShards(_, _, _, _, _, _, _, _, _)
ScoreShards(acc, shardOrder, sn, e, ngrams, ngOrder, count, g, reads) ==
    IF shardOrder = <<>> \/ acc.panic THEN acc
    ELSE ScoreShards(
            IF Head(shardOrder) >= Len(e.shards)
            THEN [acc EXCEPT !.panic = TRUE,
                             !.lookups = @ \cup {<<w, -1>> :
                                                   w \in sn[Head(shardOrder)]}]
            ELSE ScoreShard(acc, e.shards[Head(shardOrder) + 1],
                            sn[Head(shardOrder)], ngrams, ngOrder, count, g,
                            reads[Head(shardOrder)]),
            Tail(shardOrder), sn, e, ngrams, ngOrder, count, g, reads)

\* The merge loop of get_ids: scores summed per id, norms summed.
RECURSIVE MergeIds(_, _)
MergeIds(hdata, ids) ==
    IF ids = <<>> THEN hdata
    ELSE MergeIds(AddEntry(hdata, Head(ids).id, Head(ids).sc), Tail(ids))

RECURSIVE MergeShards(_, _)
MergeShards(acc, res) ==
    IF res = <<>> THEN acc
    ELSE MergeShards([hdata |-> MergeIds(acc.hdata, Head(res).ids),
                      norm |-> FAdd(acc.norm, Head(res).norm)],
                     Tail(res))

\* The tail of get_ids: divide by the norm, sort, truncate.
\* vdata before it is sorted: Sid {id, sc / norm} for each entry of hdata,
\* in the order hdata yields them (idOrder).
NormalisedSids(m, order) ==
    [i \in 1 .. Len(order) |->
       [id |-> order[i], sc |-> FDiv(m.hdata[order[i]], m.norm)]]

\* The normalised, sorted vector without v.truncate(count).
NormalisedNoTruncate(m, count, idOrder) ==
    SortBy(NormalisedSids(m, IterOrder(DOMAIN m.hdata, idOrder)))

Normalised(m, count, idOrder) ==
    Take(SortBy(NormalisedSids(m, IterOrder(DOMAIN m.hdata, idOrder))), count)

\* The ids whose normalised score is NaN: the comparator orders none of
\* them, so the sort leaves them in the order hdata yields them.
Unordered(m) ==
    {id \in DOMAIN m.hdata : IsNaN(FDiv(m.hdata[id], m.norm))}

IdsOk(m, count, idOrder, lookups) ==
    [status |-> "ok", ids |-> Normalised(m, count, idOrder),
     lookups |-> lookups, unordered |-> Unordered(m)]

IdsResult(scored, count, idOrder) ==
    IF scored.panic
    THEN [status |-> "panic", ids |-> <<>>, lookups |-> scored.lookups,
          unordered |-> {}]
    ELSE IdsOk(MergeShards([hdata |-> EmptyMap, norm |-> 0], scored.res),
               count, idOrder, scored.lookups)

\* get_ids(ngrams, Some(count)) given what each read_bucket call returns.
\* shardOrder, ngOrder and idOrder are the orders in which the HashMaps
\* yield the shard ids, the n-grams and the merged ids.
GetIdsWith(e, ngrams, count, g, shardOrder, ngOrder, reads, idOrder) ==
    IdsResult(ScoreShards([res |-> <<>>, lookups |-> {}, panic |-> FALSE],
                          shardOrder, ShardsNgrams(e, ngrams), e, ngrams,
                          ngOrder, ShardCount(count), g, reads),
              count, idOrder)

\* What the read_bucket calls of one get_ids return when no other call
\* uses the files meanwhile: bad is the set of shard files whose read fails.
SeqReads(e, sn, g, bad) ==
    [i \in {k \in DOMAIN sn : k < Len(e.shards)} |->
       [w \in sn[i] |->
          BucketOf(get_addr_and_len(w, ShardMap(e.shards[i + 1].path,
                                                e.shards[i + 1].num)),
                   ShardFile(e.shards[i + 1].path, e.shards[i + 1].num), g,
                   IF e.shards[i + 1].num \in bad THEN "err" ELSE "ok")]]

get_ids(e, ngrams, count, g, shardOrder, ngOrder, bad, idOrder) ==
    GetIdsWith(e, ngrams, count, g, shardOrder, ngOrder,
               SeqReads(e, ShardsNgrams(e, ngrams), g, bad), idOrder)

NoLookup ==
    [status |-> "ok", ids |-> <<>>, str |-> <<>>, lookups |-> {},
     used |-> None, unordered |-> {}]

WithUsed(r, g) ==
    [status |-> r.status, ids |-> r.ids, str |-> <<>>, lookups |-> r.lookups,
     used |-> Some(g), unordered |-> r.unordered]

\* get without its early return on an empty query or a zero count.
getNoEarlyReturn(e, query, count, g, shardOrder, ngOrder, bad, idOrder) ==
    WithUsed(get_ids(e, parse(query, e.path), count, g,
                     shardOrder, ngOrder, bad, idOrder), g)

\* Qpick::get(query, count)
get(e, query, count, g, shardOrder, ngOrder, bad, idOrder) ==
    IF query = <<>> \/ count = 0 THEN NoLookup
    ELSE WithUsed(get_ids(e, parse(query, e.path), count, g,
                          shardOrder, ngOrder, bad, idOrder), g)

\* The n-gram map nget builds: the parses of the queries inserted in turn.
RECURSIVE MergeParses(_, _, _)
MergeParses(ngrams, qvec, path) ==
    IF qvec = <<>> THEN ngrams
    ELSE LET p == parse(Head(qvec), path)
         IN  MergeParses([w \in DOMAIN ngrams \cup DOMAIN p |->
                            IF w \in DOMAIN p THEN p[w] ELSE ngrams[w]],
                         Tail(qvec), path)

\* Qpick::nget(qvec, count)
nget(e, qvec, count, g, shardOrder, ngOrder, bad, idOrder) ==
    IF Len(qvec) = 0 \/ count = 0 THEN NoLookup
    ELSE WithUsed(get_ids(e, MergeParses(EmptyMap, qvec, e.path), count, g,
                          shardOrder, ngOrder, bad, idOrder), g)

\* 30 * count in u32 arithmetic, on 16-bit halves: the wrapped product and
\* whether it overflowed.
Mul30(count) ==
    LET lo == 30 * (count % 65536)
        hi == 30 * (count \div 65536) + lo \div 65536
    IN  [value |-> ((hi % 65536) * 65536) + (lo % 65536), overflow |-> hi >= 65536]

\* serde_json's encoding of an f32: a number, or null when it is not finite.
JsonF32(x) ==
    IF IsNaN(x) \/ x = Infinity THEN [json |-> "null", value |-> 0]
    ELSE [json |-> "number", value |-> x]

\* serde_json::to_string of a Vec<(u64, f32)>: an array of [id, score] arrays.
ToJson(res) ==
    [i \in 1 .. Len(res) |->
       <<[json |-> "number", value |-> res[i][1]], JsonF32(res[i][2])>>]

\* The tail of get_str and nget_str over the result r of get / nget:
\* map to (id, sc), truncate to count, serialise.
StrOf(r, count) ==
    IF r.status = "panic" THEN <<>>
    ELSE ToJson(Take([i \in 1 .. Len(r.ids) |-> <<r.ids[i].id, r.ids[i].sc>>],
                     count))

WithStr(r, count) ==
    [status |-> r.status, ids |-> <<>>, str |-> StrOf(r, count),
     lookups |-> r.lookups, used |-> r.used, unordered |-> r.unordered]

Panicked ==
    [status |-> "panic", ids |-> <<>>, str |-> <<>>, lookups |-> {},
     used |-> None, unordered |-> {}]

\* Qpick::get_str(query, count).  checks: the build checks arithmetic
\* overflow (30 * count then panics instead of wrapping).
get_str(e, query, count, g, shardOrder, ngOrder, bad, idOrder, checks) ==
    LET c == Mul30(count)
    IN  IF c.overflow /\ checks THEN Panicked
        ELSE WithStr(get(e, query, c.value, g, shardOrder, ngOrder, bad,
                         idOrder),
                     count)

\* Qpick::nget_str(queries, count), queries already parsed from JSON.
nget_str(e, qvec, count, g, shardOrder, ngOrder, bad, idOrder, checks) ==
    LET c == Mul30(count)
    IN  IF c.overflow /\ checks THEN Panicked
        ELSE WithStr(nget(e, qvec, c.value, g, shardOrder, ngOrder, bad,
                          idOrder),
                     count)

\* ------------------------------------------------------------------ inputs
\* Queries: the sequences of distinct words in ascending order ("" is <<>>).
Queries == {Ascending(S) : S \in SUBSET Words}

\* Query lists of nget: at most MaxQueries one-word queries.
MaxQueries == 2

QueryLists ==
    UNION {[1 .. n -> {<<w>> : w \in Words}] : n \in 0 .. MaxQueries}

\* A count whose thirtyfold exceeds u32: 30 * BigCount = 2 (mod 2^32).
BigCount == 1861152494 + 1

Counts == {0, 1, BigCount}

\* Shard ranges a caller may pass: none, or [a, b) inside [0, nr_shards).
ShardRanges(path) ==
    LET n == ConfigOf(path).nr_shards
    IN  {None} \cup {Some(r) : r \in {x \in (0 .. n) \X (0 .. n) : x[1] < x[2]}}

\* Sets of shard files whose read fails during one call: none or one file.
FailSets == {{}} \cup {{i} : i \in 0 .. 2}

\* ------------------------------------------------------------------- state
VARIABLES
    ID_SIZE, BUCKET_SIZE, NR_SHARDS, SHARD_SIZE,  \* the static mut Options
    engine,           \* the engine the caller queries: None or Some(Qpick)
    overflow_checks,  \* whether the build checks integer overflow
    last,             \* the call the caller made last and what it returned
    threads,          \* the calls of concurrent threads on the engine
    offset            \* the file offset of each open shard file of the engine

vars == <<ID_SIZE, BUCKET_SIZE, NR_SHARDS, SHARD_SIZE, engine,
          overflow_checks, last, threads, offset>>

statics == <<ID_SIZE, BUCKET_SIZE, NR_SHARDS, SHARD_SIZE>>

Idle == [op |-> "idle"]

\* The values get_id_size() .. get_shard_size() return.
Globals ==
    [nr_shards |-> Unwrap(NR_SHARDS), id_size |-> Unwrap(ID_SIZE),
     bucket_size |-> Unwrap(BUCKET_SIZE), shard_size |-> Unwrap(SHARD_SIZE)]

Init ==
    /\ ID_SIZE = None /\ BUCKET_SIZE = None
    /\ NR_SHARDS = None /\ SHARD_SIZE = None
    /\ engine = None
    /\ overflow_checks \in BOOLEAN
    /\ last = Idle
    /\ threads = <<>>
    /\ offset = <<>>

\* Qpick::new(path, shard_range_opt): the statics are set from the index's
\* config, then the engine is built.  hold: the caller queries the new
\* engine from now on; otherwise it keeps the engine it has.
New(path, range, hold) ==
    /\ last = Idle
    /\ hold \/ engine # None
    /\ NR_SHARDS' = Some(ConfigOf(path).nr_shards)
    /\ ID_SIZE' = Some(ConfigOf(path).id_size)
    /\ BUCKET_SIZE' = Some(ConfigOf(path).bucket_size)
    /\ SHARD_SIZE' = Some(ConfigOf(path).shard_size)
    /\ engine' = IF hold THEN Some(NewQpick(path, range)) ELSE engine
    /\ UNCHANGED <<overflow_checks, last, threads, offset>>

\* What the caller holds after a call: the arguments, the Vec<Sid> (ret) or
\* String (str) returned, and what the call did.
Returned(op, query, qvec, count, r) ==
    [op |-> op, query |-> query, qvec |-> qvec, count |-> count,
     status |-> r.status, ret |-> r.ids, str |-> r.str,
     lookups |-> r.lookups, used |-> r.used,
     shardOrder |-> <<>>, ngOrder |-> <<>>, idOrder |-> <<>>, bad |-> {}]

\* The orders a call's HashMaps can yield: the shard ids, and the merged
\* ids where the order shows in the result r.
ShardOrders(e, ngrams) == Orders(DOMAIN ShardsNgrams(e, ngrams))

\* The orders in which the n-gram maps of the shards yield their n-grams,
\* written as one sequence: shard after shard, each in any order.
NgramOrders(e, ngrams) ==
    LET sid(w) == jump_consistent_hash_str(w, e.config.nr_shards)
    IN  {no \in Orders(DOMAIN ngrams) :
           \A i, j \in 1 .. Len(no) : i < j => sid(no[i]) <= sid(no[j])}

IdOrders(r) == Orders(r.unordered)

Get(query, count, bad) ==
    /\ last = Idle /\ engine # None
    /\ LET e == Unwrap(engine)
           ng == parse(query, e.path)
       IN  \E so \in ShardOrders(e, ng), no \in NgramOrders(e, ng) :
             \E io \in IdOrders(get(e, query, count, Globals, so, no, bad, <<>>)) :
               last' = [Returned("get", query, <<>>, count,
                                 get(e, query, count, Globals, so, no, bad, io))
                        EXCEPT !.shardOrder = so, !.ngOrder = no,
                               !.idOrder = io, !.bad = bad]
    /\ UNCHANGED <<statics, engine, overflow_checks, threads, offset>>

NGet(qvec, count, bad) ==
    /\ last = Idle /\ engine # None
    /\ LET e == Unwrap(engine)
           ng == MergeParses(EmptyMap, qvec, e.path)
       IN  \E so \in ShardOrders(e, ng), no \in NgramOrders(e, ng) :
             \E io \in IdOrders(nget(e, qvec, count, Globals, so, no, bad, <<>>)) :
               last' = [Returned("nget", <<>>, qvec, count,
                                 nget(e, qvec, count, Globals, so, no, bad, io))
                        EXCEPT !.shardOrder = so, !.ngOrder = no,
                               !.idOrder = io, !.bad = bad]
    /\ UNCHANGED <<statics, engine, overflow_checks, threads, offset>>

GetStr(query, count, bad) ==
    /\ last = Idle /\ engine # None
    /\ LET e == Unwrap(engine)
           ng == parse(query, e.path)
       IN  \E so \in ShardOrders(e, ng), no \in NgramOrders(e, ng) :
             \E io \in IdOrders(get_str(e, query, count, Globals, so, no, bad, <<>>,
                                      overflow_checks)) :
               last' = [Returned("get_str", query, <<>>, count,
                                 get_str(e, query, count, Globals, so, no,
                                         bad, io, overflow_checks))
                        EXCEPT !.shardOrder = so, !.ngOrder = no,
                               !.idOrder = io, !.bad = bad]
    /\ UNCHANGED <<statics, engine, overflow_checks, threads, offset>>

NGetStr(qvec, count, bad) ==
    /\ last = Idle /\ engine # None
    /\ LET e == Unwrap(engine)
           ng == MergeParses(EmptyMap, qvec, e.path)
       IN  \E so \in ShardOrders(e, ng), no \in NgramOrders(e, ng) :
             \E io \in IdOrders(nget_str(e, qvec, count, Globals, so, no, bad, <<>>,
                                       overflow_checks)) :
               last' = [Returned("nget_str", <<>>, qvec, count,
                                 nget_str(e, qvec, count, Globals, so, no,
                                          bad, io, overflow_checks))
                        EXCEPT !.shardOrder = so, !.ngOrder = no,
                               !.idOrder = io, !.bad = bad]
    /\ UNCHANGED <<statics, engine, overflow_checks, threads, offset>>

\* The caller drops the returned value.
Drop ==
    /\ last # Idle
    /\ last' = Idle
    /\ UNCHANGED <<statics, engine, overflow_checks, threads, offset>>

Next ==
    \/ \E path \in Paths, hold \in BOOLEAN :
         \E range \in ShardRanges(path) : New(path, range, hold)
    \/ \E query \in Queries, count \in Counts, bad \in FailSets :
         Get(query, count, bad)
    \/ \E qvec \in QueryLists, count \in Counts, bad \in FailSets :
         NGet(qvec, count, bad)
    \/ \E query \in Queries, count \in Counts, bad \in FailSets :
         GetStr(query, count, bad)
    \/ \E qvec \in QueryLists, count \in Counts, bad \in FailSets :
         NGetStr(qvec, count, bad)
    \/ Drop

Spec == Init /\ [][Next]_vars

\* --------------------------------------------------- the posting reader
\* read_bucket on its own: files that hold fewer bytes than their map says
\* (every prefix of every shard file), any record address, any length up to
\* one past BUCKET_SIZE, and a read that succeeds or fails.
BucketFiles ==
    UNION {{Take(ShardFile(path, i), n) : n \in 0 .. Len(ShardFile(path, i))} :
             path \in Paths, i \in 0 .. 2}

InitRB ==
    /\ \E path \in Paths :
         /\ NR_SHARDS = Some(ConfigOf(path).nr_shards)
         /\ ID_SIZE = Some(ConfigOf(path).id_size)
         /\ BUCKET_SIZE = Some(ConfigOf(path).bucket_size)
         /\ SHARD_SIZE = Some(ConfigOf(path).shard_size)
    /\ engine = None
    /\ overflow_checks = FALSE
    /\ last = Idle
    /\ threads = <<>>
    /\ offset = <<>>

ReadBucket(file, addr, len, outcome) ==
    /\ last = Idle
    /\ len <= Unwrap(BUCKET_SIZE) + 1
    /\ last' = [op |-> "read_bucket", file |-> file, addr |-> addr,
                len |-> len, outcome |-> outcome,
                result |-> read_bucket(file, addr, len, Globals, outcome)]
    /\ UNCHANGED <<statics, engine, overflow_checks, threads, offset>>

\* The byte addresses of whole records in these files, and the lengths up
\* to one past the largest bucket.
RecordAddrs ==
    {Len(f) - (Len(f) % ConfigOf(path).id_size) :
       f \in BucketFiles, path \in Paths}

BucketLens == UNION {0 .. ConfigOf(path).bucket_size + 1 : path \in Paths}

NextRB ==
    \/ \E file \in BucketFiles, addr \in RecordAddrs, len \in BucketLens,
          outcome \in {"ok", "err"} :
            ReadBucket(file, addr, len, outcome)
    \/ Drop

SpecRB == InitRB /\ [][NextRB]_vars

\* ------------------------------------------------------ concurrent calls
\* Threads calling get on one engine at the same time.  Each seek and each
\* read of a shard file is one step; everything else a call does between
\* them touches nothing shared.
NumThreads == 2

Threads == 1 .. NumThreads

\* Concurrent calls carry queries of at most MaxConcWords words.
MaxConcWords == 2

ConcQueries == {q \in Queries : Len(q) <= MaxConcWords}

IdleThread == [pc |-> "idle"]

\* The read_bucket calls of one get_ids, in order: for each shard id of
\* shardOrder and each of its n-grams the map knows, the slot of
\* self.shards, the n-gram and its <<addr, len>>.
RECURSIVE LookupsOf(_, _, _)
LookupsOf(e, i, order) ==
    IF order = <<>> THEN <<>>
    ELSE LET sh == e.shards[i + 1]
             al == get_addr_and_len(Head(order), ShardMap(sh.path, sh.num))
         IN  (IF al = <<>> THEN <<>>
              ELSE <<[slot |-> i, ngram |-> Head(order), al |-> al]>>)
             \o LookupsOf(e, i, Tail(order))

WorkOf(e, sn, shardOrder, ngOrder) ==
    Concat([k \in 1 .. Len(shardOrder) |->
              LookupsOf(e, shardOrder[k], Restrict(ngOrder, sn[shardOrder[k]]))])

InitConc ==
    /\ \E path \in Paths :
         /\ NR_SHARDS = Some(ConfigOf(path).nr_shards)
         /\ ID_SIZE = Some(ConfigOf(path).id_size)
         /\ BUCKET_SIZE = Some(ConfigOf(path).bucket_size)
         /\ SHARD_SIZE = Some(ConfigOf(path).shard_size)
         /\ engine = Some(NewQpick(path, None))
         /\ offset = [k \in 1 .. ConfigOf(path).nr_shards |-> 0]
    /\ overflow_checks = FALSE
    /\ last = Idle
    /\ threads = [t \in Threads |-> IdleThread]

\* Thread t calls get(query, count): the early return, or everything up to
\* the first seek.
Begin(t, query, count) ==
    /\ threads[t].pc = "idle"
    /\ LET e == Unwrap(engine)
           ng == parse(query, e.path)
           sn == ShardsNgrams(e, ng)
       IN  \E so \in Orders(DOMAIN sn), no \in NgramOrders(e, ng) :
             threads' = [threads EXCEPT ![t] =
                IF query = <<>> \/ count = 0
                THEN [pc |-> "done", query |-> query, count |-> count,
                      shardOrder |-> so, ngOrder |-> no, idOrder |-> <<>>,
                      work |-> <<>>, reads |-> <<>>, ret |-> NoLookup]
                ELSE [pc |-> IF WorkOf(e, sn, so, no) = <<>> THEN "merge"
                             ELSE "seek",
                      query |-> query, count |-> count,
                      shardOrder |-> so, ngOrder |-> no, idOrder |-> <<>>,
                      work |-> WorkOf(e, sn, so, no),
                      reads |-> [i \in DOMAIN sn |->
                                   [w \in sn[i] |->
                                      [panic |-> FALSE, recs |-> <<>>]]],
                      ret |-> NoLookup]]
    /\ UNCHANGED <<statics, engine, overflow_checks, last, offset>>

\* file.seek(SeekFrom::Start(addr)) of the next read_bucket call of t.
Seek(t) ==
    /\ threads[t].pc = "seek"
    /\ LET item == Head(threads[t].work)
       IN  offset' = [offset EXCEPT ![item.slot + 1] =
                        item.al[1] * Unwrap(ID_SIZE)]
    /\ threads' = [threads EXCEPT ![t].pc = "read"]
    /\ UNCHANGED <<statics, engine, overflow_checks, last>>

\* handle.read(&mut buf) of that call, at the offset the file has now, and
\* the decoding of the bucket.
Read(t) ==
    /\ threads[t].pc = "read"
    /\ LET item == Head(threads[t].work)
           sh == Unwrap(engine).shards[item.slot + 1]
           r == ReadInto(ShardFile(sh.path, sh.num), offset[item.slot + 1],
                         Unwrap(BUCKET_SIZE) * Unwrap(ID_SIZE), "ok")
       IN  /\ offset' = [offset EXCEPT ![item.slot + 1] = @ + r.n]
           /\ threads' = [threads EXCEPT
                ![t].reads[item.slot][item.ngram] =
                    DecodeBucket(r.buf, r.n, item.al[2], Unwrap(ID_SIZE)),
                ![t].work = Tail(@),
                ![t].pc = IF Tail(threads[t].work) = <<>> THEN "merge"
                          ELSE "seek"]
    /\ UNCHANGED <<statics, engine, overflow_checks, last>>

\* The rest of get_ids once every bucket has been read.
MergeOf(th, idOrder) ==
    WithUsed(GetIdsWith(Unwrap(engine), parse(th.query, Unwrap(engine).path),
                        th.count, Globals, th.shardOrder, th.ngOrder,
                        th.reads, idOrder),
             Globals)

Finish(t) ==
    /\ threads[t].pc = "merge"
    /\ \E io \in IdOrders(MergeOf(threads[t], <<>>)) :
         threads' = [threads EXCEPT
            ![t].pc = "done",
            ![t].idOrder = io,
            ![t].ret = MergeOf(threads[t], io)]
    /\ UNCHANGED <<statics, engine, overflow_checks, last, offset>>

NextConc ==
    \/ \E t \in Threads, query \in ConcQueries, count \in Counts :
         Begin(t, query, count)
    \/ \E t \in Threads : Seek(t)
    \/ \E t \in Threads : Read(t)
    \/ \E t \in Threads : Finish(t)

SpecConc == InitConc /\ [][NextConc]_vars

\* ------------------------------------------------------------------ claims
\* A call of get or nget has returned a list.
ReturnedIds == last.op \in {"get", "nget"} /\ last.status = "ok"

\* The n-gram map of the call made last.
LastNgrams ==
    IF last.op \in {"get", "get_str"}
    THEN parse(last.query, Unwrap(engine).path)
    ELSE MergeParses(EmptyMap, last.qvec, Unwrap(engine).path)

\* The statics hold the configuration of the engine the caller queries.
OwnConfig == engine # None /\ Globals = Unwrap(engine).config

\* C2: on an engine opened with shard_range [a, b), every n-gram whose hash
\* is shard i is looked up in shard i when a <= i < b and skipped otherwise;
\* no other shard and no out-of-range slot of the shard list is accessed
\* (here in a process whose statics hold the engine's own configuration, and
\* for calls that reach get_ids).
C2_ShardRange ==
    (last.op \in {"get", "nget"} /\ last.used # None /\ OwnConfig) =>
        LET e == Unwrap(engine)
            sid(w) == jump_consistent_hash_str(w, e.config.nr_shards)
        IN  /\ last.status = "ok"
            /\ last.lookups =
                 {<<w, sid(w)>> : w \in {x \in DOMAIN LastNgrams :
                     e.shard_range.start <= sid(x) /\ sid(x) < e.shard_range.end}}

\* C3: in a returned list, entries with equal scores are in ascending id
\* order.
C3_TieAscendingId ==
    ReturnedIds =>
        \A i, j \in 1 .. Len(last.ret) :
            (i < j /\ F32Eq(last.ret[i].sc, last.ret[j].sc)) =>
                last.ret[i].id < last.ret[j].id

\* The (id, sc) pairs of a list of Sids.
Pairs(ids) == [i \in 1 .. Len(ids) |-> <<ids[i].id, ids[i].sc>>]

\* get(q, k) or nget(qs, k) for the arguments of the get_str or nget_str
\* call made last.
PlainCall(so, no, io) ==
    IF last.op = "get_str"
    THEN get(Unwrap(engine), last.query, last.count, Globals, so, no,
             last.bad, io)
    ELSE nget(Unwrap(engine), last.qvec, last.count, Globals, so, no,
              last.bad, io)

\* C4: get_str(q, k) is the JSON encoding of the list get(q, k) returns
\* (for the same read failures and some iteration order of its HashMaps),
\* and nget_str(qs, k) that of nget(qs, k).
C4_StrEncodesGet ==
    last.op \in {"get_str", "nget_str"} =>
        \E so \in ShardOrders(Unwrap(engine), LastNgrams),
           no \in NgramOrders(Unwrap(engine), LastNgrams) :
          \E io \in IdOrders(PlainCall(so, no, <<>>)) :
            LET r == PlainCall(so, no, io)
            IN  /\ last.status = r.status
                /\ last.status = "ok" => last.str = ToJson(Pairs(r.ids))
                /\ Len(last.str) <= last.count

\* The ids of a list of Sids, in order.
IdsOnly(ids) == [i \in 1 .. Len(ids) |-> ids[i].id]

\* C6: the ids get_ids returns, and their order, are the same for every
\* order in which the participating shards are scored and merged.
C6_ShardOrderIndependent ==
    ReturnedIds =>
        \A so \in ShardOrders(Unwrap(engine), LastNgrams) :
            IdsOnly(get_ids(Unwrap(engine), LastNgrams, last.count, Globals,
                            so, last.ngOrder, last.bad, last.idOrder).ids)
              = IdsOnly(last.ret)

\* C7: get(q, k) and nget(qs, k) return at most k entries.
C7_AtMostCount == ReturnedIds => Len(last.ret) <= last.count

\* A call that had more than count candidates returned exactly count.
C7_Witness ==
    /\ ReturnedIds /\ last.count = 1 /\ Len(last.ret) = 1
    /\ Len(get_ids(Unwrap(engine), LastNgrams, BigCount, Globals,
                   last.shardOrder, last.ngOrder, last.bad,
                   last.idOrder).ids) > 1

\* f32 >=: false when either side is NaN.
F32Ge(x, y) == ~IsNaN(x) /\ ~IsNaN(y) /\ x >= y

\* C8: a returned list is sorted by score descending: sc[i] >= sc[j] for
\* any two positions i < j.
C8_SortedDescending ==
    ReturnedIds =>
        \A i, j \in 1 .. Len(last.ret) :
            i < j => F32Ge(last.ret[i].sc, last.ret[j].sc)

\* The call made last is get("", k), get(q, 0), nget([], k) or nget(qs, 0).
EmptyInput ==
    \/ last.op = "get" /\ (last.query = <<>> \/ last.count = 0)
    \/ last.op = "nget" /\ (last.qvec = <<>> \/ last.count = 0)

\* C9: get("", k), get(q, 0), nget([], k) and nget(qs, 0) return the empty
\* list normally, and no shard map or posting file is consulted.
C9_EmptyInputs ==
    EmptyInput =>
        last.status = "ok" /\ last.ret = <<>> /\ last.lookups = {}

\* get(q, 0) returned for a query with n-grams in the engine's shards.
C9_Witness ==
    /\ EmptyInput /\ last.op = "get" /\ last.count = 0 /\ last.status = "ok"
    /\ DOMAIN ShardsNgrams(Unwrap(engine), LastNgrams) # {}

\* C10: the ID_SIZE, BUCKET_SIZE, NR_SHARDS and SHARD_SIZE a query on an
\* engine uses are the engine's own config values, whatever engines have
\* been constructed.
C10_OwnConfigUsed ==
    (last.op # "idle" /\ last.used # None) =>
        Unwrap(last.used) = Unwrap(engine).config

\* The record stored at byte offset off of a file.
RecordAt(file, off) ==
    << read_u32(SubSeq(file, off + 1, off + 4)),
       file[off + 5], file[off + 6], file[off + 7] >>

\* C5: read_bucket returns only records that lie wholly inside the bytes
\* actually read: the len records when they are all there, the prefix
\* available on a short read, nothing on a read error.
C5_OnlyRecordsRead ==
    (last.op = "read_bucket" /\ last.len <= Unwrap(BUCKET_SIZE)) =>
        LET id == Unwrap(ID_SIZE)
            left == IF last.addr >= Len(last.file) THEN 0
                    ELSE Len(last.file) - last.addr
            n == IF last.outcome = "err" THEN 0
                 ELSE Min2(Unwrap(BUCKET_SIZE) * id, left)
        IN  /\ ~last.result.panic
            /\ last.result.recs =
                 [i \in 1 .. Min2(last.len, n \div id) |->
                    RecordAt(last.file, last.addr + (i - 1) * id)]

\* C1: under every interleaving of concurrent get calls on one engine, each
\* read_bucket decodes the records stored at the address it was asked for,
\* and each call returns what it returns when it runs alone.
C1_ConcurrentCallsSafe ==
    \A t \in Threads :
        threads[t].pc = "done" =>
            threads[t].ret =
                get(Unwrap(engine), threads[t].query, threads[t].count,
                    Globals, threads[t].shardOrder, threads[t].ngOrder, {},
                    threads[t].idOrder)

====
